---- MODULE Spec2Model ----
\* Model of TensorDiagramCore (src/src/diagrams.ts): the diagram builder
\* (addTensor, addContraction, addSummation, setSize) and the read-only
\* derivations looseIndices and toFormulaEinsum.
\*
\* A Contraction of the source holds references to Tensor objects of
\* this.tensors.  Tensors are only ever appended, never removed or reordered,
\* so a reference is modelled by the tensor's 1-based position in `tensors`;
\* the JavaScript value `undefined` (an out-of-range array read) is the
\* reference Undefined.
EXTENDS Integers, Sequences, FiniteSets, TLC

\* ---------------------------------------------------------------- bounds
\* tensors in a diagram; tensors added by addTensor calls; contractions in a
\* diagram; contractions present when addContraction is called; largest
\* tensor id given to addContraction
MaxTensors == 4
MaxAdded == 2
MaxContractions == 4
MaxManual == 1
MaxId == 1

\* ------------------------------------------------------- program constants
DefaultSize == 20
DefaultWidth == 300
DefaultHeight == 300
Undefined == 0

\* ----------------------------------------------------------------- inputs
Names == {"k", "k0"}
TensorNames == {"A"}
Pos == {"left", "right", "up", "down"}

NoLayout == [left |-> <<>>, right |-> <<>>, up |-> <<>>, down |-> <<>>]
OneSide(side, l) == [NoLayout EXCEPT ![side] = l]
\* the index names given to one addTensor call: one name, or two names with
\* the summed one at order 1, on any one side; or names on all four sides
Layouts ==
  {OneSide(side, l) : side \in Pos, l \in {<<"k">>, <<"k0", "k">>}}
    \cup {[left |-> <<"k0", "k">>, right |-> <<"k">>, up |-> <<"k0">>, down |-> <<"k", "k0">>]}

XYPos(x, y) == [kind |-> "xy", x |-> x, y |-> y]
NoPosition == [kind |-> "undefined", x |-> 0, y |-> 0]
\* "start" is the position of a diagram's first tensor only
RelPosInputs(ts) ==
  {[kind |-> k, x |-> 0, y |-> 0] :
     k \in (IF ts = <<>> THEN {"start"} ELSE {}) \cup {"right", "down"}}
DotPosInputs == {NoPosition, XYPos(1, 1)}
SizeInputs == {<<300, 300>>, <<400, 200>>}
NoOpts == [hasShape |-> FALSE, shape |-> "circle", hasShowLabel |-> FALSE, showLabel |-> TRUE]
dotOpts == [hasShape |-> TRUE, shape |-> "dot", hasShowLabel |-> TRUE, showLabel |-> FALSE]

VARIABLES tensors, contractions, width, height, last
vars == <<tensors, contractions, width, height, last>>

\* ------------------------------------------------------------ pure helpers
MaxOf(a, b) == IF a >= b THEN a ELSE b

CountPos(indices, p) == Len(SelectSeq(indices, LAMBDA ix : ix.pos = p))

\* a variant of opposite that returns the side it is given
opposite_SameSide(pos) == pos

opposite(pos) ==
  CASE pos = "left" -> "right"
    [] pos = "right" -> "left"
    [] pos = "up" -> "down"
    [] pos = "down" -> "up"

createTensor(x, y, name, indices, shape, showLabel, labPos, size) ==
  [x |-> x, y |-> y, name |-> name, shape |-> shape, showLabel |-> showLabel,
   labPos |-> labPos, size |-> size, indices |-> indices,
   rectHeight |-> MaxOf(CountPos(indices, "right"), CountPos(indices, "left"))]

\* this.tensors[i] for a 0-based i: a reference, or undefined out of range
TensorAt(ts, i) == IF 0 <= i /\ i < Len(ts) THEN i + 1 ELSE Undefined

lastTensor(ts) == TensorAt(ts, Len(ts) - 1)

\* left.map((s, i) => ({name: s, pos, order: i, showLabel: true}))
MapIndices(names, side) ==
  [i \in 1..Len(names) |->
     [name |-> names[i], pos |-> side, order |-> i - 1, showLabel |-> TRUE]]

\* a variant of addTensor that places a tensor without position at (0, 0)
addTensor_DefaultPosition(ts, name, position, left, right, up, down, opts) ==
  IF position.kind \in {"right", "down"} /\ lastTensor(ts) = Undefined
    THEN [err |-> "TypeError", tensors |-> ts]
  ELSE
    LET indices == MapIndices(left, "left") \o MapIndices(right, "right")
                     \o MapIndices(up, "up") \o MapIndices(down, "down")
        pos == CASE position.kind = "right" ->
                      [x |-> ts[lastTensor(ts)].x + 1, y |-> ts[lastTensor(ts)].y]
                 [] position.kind = "down" ->
                      [x |-> ts[lastTensor(ts)].x, y |-> ts[lastTensor(ts)].y + 1]
                 [] OTHER -> [x |-> position.x, y |-> position.y]
    IN [err |-> "none",
        tensors |-> Append(ts, createTensor(pos.x, pos.y, name, indices,
                      IF opts.hasShape THEN opts.shape
                      ELSE IF Len(left) > 1 \/ Len(right) > 1 THEN "rectangle" ELSE "circle",
                      IF opts.hasShowLabel THEN opts.showLabel ELSE TRUE,
                      "up", DefaultSize))]

\* addTensor: result [err, tensors].  Reading .x of an undefined lastTensor
\* (lines 106, 109) or of an undefined position (line 149) throws a TypeError
\* before the push of line 158.
addTensor(ts, name, position, left, right, up, down, opts) ==
  IF position.kind \in {"right", "down"} /\ lastTensor(ts) = Undefined
    THEN [err |-> "TypeError", tensors |-> ts]
  ELSE IF position.kind = "undefined"
    THEN [err |-> "TypeError", tensors |-> ts]
  ELSE
    LET pos == CASE position.kind = "start" -> [x |-> 0, y |-> 0]
                 [] position.kind = "right" ->
                      [x |-> ts[lastTensor(ts)].x + 1, y |-> ts[lastTensor(ts)].y]
                 [] position.kind = "down" ->
                      [x |-> ts[lastTensor(ts)].x, y |-> ts[lastTensor(ts)].y + 1]
                 [] OTHER -> [x |-> position.x, y |-> position.y]
        inds1 == MapIndices(left, "left")
        inds2 == MapIndices(right, "right")
        inds3 == MapIndices(up, "up")
        inds4 == MapIndices(down, "down")
        indices == inds1 \o inds2 \o inds3 \o inds4
        bigTensor == Len(inds1) > 1 \/ Len(inds2) > 1
        tensor == createTensor(pos.x, pos.y, name, indices,
                    IF opts.hasShape THEN opts.shape
                    ELSE IF bigTensor THEN "rectangle" ELSE "circle",
                    IF opts.hasShowLabel THEN opts.showLabel ELSE TRUE,
                    "up", DefaultSize)
    IN [err |-> "none", tensors |-> Append(ts, tensor)]

\* a variant of addContraction with source and target exchanged
addContraction_Swapped(ts, cs, i, j, name, pos) ==
  Append(cs, [source |-> TensorAt(ts, j), target |-> TensorAt(ts, i),
              name |-> name, pos |-> pos])

\* addContraction: the contraction list after the push of line 184
addContraction(ts, cs, i, j, name, pos) ==
  Append(cs, [source |-> TensorAt(ts, i), target |-> TensorAt(ts, j),
              name |-> name, pos |-> pos])

\* tensor.indices.some((index) => index.name === name)
HasIndex(t, name) == \E q \in 1..Len(t.indices) : t.indices[q].name = name

\* the position of the first index named name (filter(...)[0], find(...)), or 0
FirstIndex(t, name) ==
  IF HasIndex(t, name)
    THEN CHOOSE q \in 1..Len(t.indices) :
           /\ t.indices[q].name = name
           /\ \A r \in 1..(q - 1) : t.indices[r].name # name
    ELSE 0

RECURSIVE FilterRelevant(_, _, _)
FilterRelevant(ts, name, p) ==
  IF p > Len(ts) THEN <<>>
  ELSE (IF HasIndex(ts[p], name) THEN <<p>> ELSE <<>>) \o FilterRelevant(ts, name, p + 1)

\* this.tensors.filter(...): the references of the tensors carrying name
relevantTensors(ts, name) == FilterRelevant(ts, name, 1)

\* this.tensors.indexOf(tensor) for a reference into this.tensors
IndexOf(ts, ref) == ref - 1

\* a variant of NextOrder that counts the indices of every side
NextOrder_AllSides(indices, side) == Len(indices)

\* the order of an index pushed onto the dot (lines 289-291): the number of
\* indices the dot already has on that side
NextOrder(indices, side) == CountPos(indices, side)

\* a variant of ContractionName that keeps the name being summed
ContractionName_Original(name, newName) == name

\* the name under which the star's contraction is recorded (line 298)
ContractionName(name, newName) == newName

\* one iteration of the forEach of lines 281-300 for the i-th relevant tensor
\* (reference ref); dot is the reference of dotTensor.  find() returning
\* undefined makes index.pos throw and ends the loop.
StarStep(st, ref, i, name, dot) ==
  LET ts == st.tensors
      q == FirstIndex(ts[ref], name)
  IN IF q = 0
       THEN [err |-> "TypeError", tensors |-> ts, contractions |-> st.contractions]
     ELSE
       LET index == ts[ref].indices[q]
           newName == name \o ToString(i)
           side == opposite(index.pos)
           ts1 == [ts EXCEPT ![dot].indices =
                     Append(@, [name |-> newName, pos |-> side,
                                order |-> NextOrder(ts[dot].indices, side),
                                showLabel |-> FALSE])]
           ts2 == [ts1 EXCEPT ![ref].indices[q].name = newName]
       IN [err |-> "none", tensors |-> ts2,
           contractions |-> addContraction(ts2, st.contractions, IndexOf(ts2, ref),
                                           Len(ts2) - 1,
                                           ContractionName(name, newName), "up")]

RECURSIVE StarLoop(_, _, _, _, _)
StarLoop(st, rel, i, name, dot) ==
  IF i >= Len(rel) \/ st.err # "none" THEN st
  ELSE StarLoop(StarStep(st, rel[i + 1], i, name, dot), rel, i + 1, name, dot)

\* a variant of OneDot that leaves the index's order out of the coordinates
OneDot_NoOrder(t, indOne) ==
  CASE indOne.pos = "left" -> [x |-> t.x - 1, y |-> t.y, side |-> "right"]
    [] indOne.pos = "right" -> [x |-> t.x + 1, y |-> t.y, side |-> "left"]
    [] indOne.pos = "up" -> [x |-> t.x, y |-> t.y - 1, side |-> "down"]
    [] indOne.pos = "down" -> [x |-> t.x, y |-> t.y + 1, side |-> "up"]

\* the dot of the one-tensor branch (lines 213-262): its coordinates and the
\* side that receives the index
OneDot(t, indOne) ==
  CASE indOne.pos = "left" ->
         [x |-> t.x - 1, y |-> t.y + indOne.order, side |-> "right"]
    [] indOne.pos = "right" ->
         [x |-> t.x + 1, y |-> t.y + indOne.order, side |-> "left"]
    [] indOne.pos = "up" ->
         [x |-> t.x + indOne.order, y |-> t.y - 1, side |-> "down"]
    [] indOne.pos = "down" ->
         [x |-> t.x + indOne.order, y |-> t.y + 1, side |-> "up"]

SideNames(side, here, name) == IF side = here THEN <<name>> ELSE <<>>

\* addSummation: result [err, tensors, contractions]
addSummation(ts, cs, name, position) ==
  LET rel == relevantTensors(ts, name)
  IN CASE Len(rel) = 0 ->
            [err |-> "Error", tensors |-> ts, contractions |-> cs]
       [] Len(rel) = 1 ->
            LET oneTensor == rel[1]
                indOne == ts[oneTensor].indices[FirstIndex(ts[oneTensor], name)]
                d == OneDot(ts[oneTensor], indOne)
                r == addTensor(ts, "dot", XYPos(d.x, d.y),
                               SideNames(d.side, "left", name),
                               SideNames(d.side, "right", name),
                               SideNames(d.side, "up", name),
                               SideNames(d.side, "down", name), dotOpts)
            IN [err |-> "none", tensors |-> r.tensors,
                contractions |-> addContraction(r.tensors, cs,
                                   IndexOf(r.tensors, oneTensor),
                                   Len(r.tensors) - 1, name, "up")]
       [] Len(rel) = 2 ->
            [err |-> "none", tensors |-> ts,
             contractions |-> addContraction(ts, cs, IndexOf(ts, rel[1]),
                                             IndexOf(ts, rel[2]), name, "up")]
       [] OTHER ->
            LET r == addTensor(ts, "dot", position, <<>>, <<>>, <<>>, <<>>, dotOpts)
            IN IF r.err # "none"
                 THEN [err |-> r.err, tensors |-> r.tensors, contractions |-> cs]
               ELSE StarLoop([err |-> "none", tensors |-> r.tensors, contractions |-> cs],
                             rel, 0, name, lastTensor(r.tensors))

\* ------------------------------------------------------ formula derivation
\* contractedIndicesNames.includes(n) / indicesContracted.includes(n)
IsContracted(cs, n) == \E c \in 1..Len(cs) : cs[c].name = n

\* a variant of looseIndices that drops an index only when the first
\* contraction carries its name
looseIndices_FirstContraction(ts, cs) ==
  [t \in 1..Len(ts) |->
     SelectSeq(ts[t].indices, LAMBDA ix : ~(cs # <<>> /\ cs[1].name = ix.name))]

looseIndices(ts, cs) ==
  [t \in 1..Len(ts) |->
     SelectSeq(ts[t].indices, LAMBDA ix : ~IsContracted(cs, ix.name))]

NamesOf(indices) == [q \in 1..Len(indices) |-> indices[q].name]

\* indiceNames, line 321
indiceNames(ts) == [t \in 1..Len(ts) |-> NamesOf(ts[t].indices)]

RECURSIVE FlatMap(_)
FlatMap(ss) == IF ss = <<>> THEN <<>> ELSE Head(ss) \o FlatMap(Tail(ss))

Includes(s, e) == \E q \in 1..Len(s) : s[q] = e

\* a variant of FreeLoop that does not look for the name in indicesFree
RECURSIVE FreeLoop_NoDedup(_, _, _)
FreeLoop_NoDedup(all, cs, acc) ==
  IF all = <<>> THEN acc
  ELSE FreeLoop_NoDedup(Tail(all), cs,
                        IF ~IsContracted(cs, Head(all)) THEN Append(acc, Head(all)) ELSE acc)

\* the forEach of lines 330-334, acc is indicesFree so far
RECURSIVE FreeLoop(_, _, _)
FreeLoop(all, cs, acc) ==
  IF all = <<>> THEN acc
  ELSE FreeLoop(Tail(all), cs,
                IF ~IsContracted(cs, Head(all)) /\ ~Includes(acc, Head(all))
                  THEN Append(acc, Head(all)) ELSE acc)

indicesFree(ts, cs) == FreeLoop(FlatMap(indiceNames(ts)), cs, <<>>)

RECURSIVE Join(_, _)
Join(ss, sep) ==
  IF ss = <<>> THEN ""
  ELSE IF Len(ss) = 1 THEN Head(ss)
  ELSE Head(ss) \o sep \o Join(Tail(ss), sep)

toFormulaEinsum(ts, cs) ==
  "einsum('"
    \o Join([t \in 1..Len(ts) |-> Join(indiceNames(ts)[t], "")], ",")
    \o "->" \o Join(indicesFree(ts, cs), "")
    \o "', " \o Join([t \in 1..Len(ts) |-> ts[t].name], ", ") \o ")"

\* ----------------------------------------------------------- state machine
\* last is the record of the most recent builder call: its name, arguments
\* and outcome ("none", or the kind of error thrown).
Call(op, err, name, position, layout) ==
  [op |-> op, err |-> err, name |-> name, position |-> position, layout |-> layout]

Init ==
  /\ tensors = <<>>
  /\ contractions = <<>>
  /\ width = DefaultWidth
  /\ height = DefaultHeight
  /\ last = Call("new", "none", "", NoPosition, NoLayout)

\* the tensors that addTensor calls added, as opposed to the dots of addSummation
Added(ts) == Len(SelectSeq(ts, LAMBDA t : t.shape # "dot"))

AddTensor ==
  \E name \in TensorNames, position \in RelPosInputs(tensors), l \in Layouts :
    /\ Len(tensors) < MaxTensors
    /\ Added(tensors) < MaxAdded
    /\ LET r == addTensor(tensors, name, position, l.left, l.right, l.up, l.down, NoOpts)
       IN /\ tensors' = r.tensors
          /\ last' = Call("addTensor", r.err, name, position, l)
    /\ UNCHANGED <<contractions, width, height>>

AddContraction ==
  \E i \in -1..MaxId, j \in -1..MaxId, name \in Names :
    /\ Len(contractions) < MaxManual
    /\ contractions' = addContraction(tensors, contractions, i, j, name, "up")
    /\ last' = Call("addContraction", "none", name, NoPosition, NoLayout)
    /\ UNCHANGED <<tensors, width, height>>

AddSummation ==
  \E name \in Names, position \in DotPosInputs :
    LET r == addSummation(tensors, contractions, name, position)
    IN /\ Len(r.tensors) <= MaxTensors
       /\ Len(r.contractions) <= MaxContractions
       /\ tensors' = r.tensors
       /\ contractions' = r.contractions
       /\ last' = Call("addSummation", r.err, name, position, NoLayout)
       /\ UNCHANGED <<width, height>>

SetSize ==
  \E wh \in SizeInputs :
    /\ width' = wh[1]
    /\ height' = wh[2]
    /\ last' = Call("setSize", "none", "", NoPosition, NoLayout)
    /\ UNCHANGED <<tensors, contractions>>

Next == AddTensor \/ AddContraction \/ AddSummation \/ SetSize

Spec == Init /\ [][Next]_vars

\* diagrams built with addTensor and addSummation alone
NextSum == AddTensor \/ AddSummation

SpecSum == Init /\ [][NextSum]_vars

\* ------------------------------------------------- vocabulary of the claims
\* the tensors (references) of ts that carry an index named n
Carriers(ts, n) ==
  {p \in 1..Len(ts) : \E q \in 1..Len(ts[p].indices) : ts[p].indices[q].name = n}

\* the k-th (from 0) element of a set of numbers, in increasing order
Kth(S, k) == CHOOSE p \in S : Cardinality({r \in S : r < p}) = k

\* the first index of tensor t named n
FirstNamed(t, n) ==
  t.indices[CHOOSE q \in 1..Len(t.indices) :
              /\ t.indices[q].name = n
              /\ \A r \in 1..(q - 1) : t.indices[r].name # n]

\* the name n followed by the decimal digit k
Suffixed(n, k) == n \o <<"0", "1", "2", "3", "4", "5", "6", "7", "8", "9">>[k + 1]

Opposed(p1, p2) == {p1, p2} \in {{"left", "right"}, {"up", "down"}}

IsTensorRef(ts, ref) == ref \in 1..Len(ts)

\* tensors ts2 are tensors ts1 followed by exactly one more tensor
OneAppended(ts1, ts2) == Len(ts2) = Len(ts1) + 1 /\ SubSeq(ts2, 1, Len(ts1)) = ts1

\* C1: addContraction with an id outside 0..count-1 records no contraction:
\* every recorded contraction's source and target are tensors of the diagram.
\* (Violated by the code: the out-of-range read yields undefined and the
\* contraction is pushed all the same.)
C1_ContractionsReferenceTensors ==
  \A c \in 1..Len(contractions) :
    /\ IsTensorRef(tensors, contractions[c].source)
    /\ IsTensorRef(tensors, contractions[c].target)

\* the step is one of the documented failing calls
C2_IsFailingCall ==
  \/ /\ last'.op = "addSummation"
     /\ Carriers(tensors, last'.name) = {}
  \/ /\ last'.op = "addSummation"
     /\ Cardinality(Carriers(tensors, last'.name)) >= 3
     /\ last'.position.kind = "undefined"
  \/ /\ last'.op = "addTensor"
     /\ last'.position.kind \in {"right", "down"}
     /\ tensors = <<>>

C3_BinarySummation ==
  [][(last'.op = "addSummation" /\ Cardinality(Carriers(tensors, last'.name)) = 2) =>
       LET S == Carriers(tensors, last'.name)
           new == contractions'[Len(contractions) + 1]
       IN /\ last'.err = "none"
          /\ tensors' = tensors
          /\ OneAppended(contractions, contractions')
          /\ new.source = Kth(S, 0)
          /\ new.target = Kth(S, 1)
          /\ new.name = last'.name]_vars

C3_Witness ==
  /\ last.op = "addSummation"
  /\ last.err = "none"
  /\ contractions # <<>>
  /\ LET c == contractions[Len(contractions)]
     IN /\ c.name = last.name
        /\ c.source < c.target
        /\ tensors[c.source].shape # "dot"
        /\ tensors[c.target].shape # "dot"
        /\ Carriers(tensors, last.name) = {c.source, c.target}

\* where the claim puts the dot of tensor T for an index on side p at order o
C4_DotFor(T, p, o) ==
  CASE p = "left" -> [x |-> T.x - 1, y |-> T.y + o, side |-> "right"]
    [] p = "right" -> [x |-> T.x + 1, y |-> T.y + o, side |-> "left"]
    [] p = "up" -> [x |-> T.x + o, y |-> T.y - 1, side |-> "down"]
    [] p = "down" -> [x |-> T.x + o, y |-> T.y + 1, side |-> "up"]

\* C4: addSummation(name) when exactly 1 tensor T carries name, its first such
\* index on side p at order o, appends one hidden-label "dot" tensor and one
\* contraction named name from T to the dot.  The dot is at (T.x-1, T.y+o)
\* with its single index name on the right when p = left; at (T.x+1, T.y+o),
\* index on the left, when p = right; at (T.x+o, T.y-1), index down, when
\* p = up; at (T.x+o, T.y+1), index up, when p = down.
C4_TraceSummation ==
  [][(last'.op = "addSummation" /\ Cardinality(Carriers(tensors, last'.name)) = 1) =>
       LET n == last'.name
           ref == Kth(Carriers(tensors, n), 0)
           T == tensors[ref]
           ix == FirstNamed(T, n)
           want == C4_DotFor(T, ix.pos, ix.order)
           dot == tensors'[Len(tensors) + 1]
           new == contractions'[Len(contractions) + 1]
       IN /\ last'.err = "none"
          /\ OneAppended(tensors, tensors')
          /\ dot.shape = "dot"
          /\ dot.showLabel = FALSE
          /\ dot.x = want.x
          /\ dot.y = want.y
          /\ Len(dot.indices) = 1
          /\ dot.indices[1].name = n
          /\ dot.indices[1].pos = want.side
          /\ OneAppended(contractions, contractions')
          /\ new.name = n
          /\ new.source = ref
          /\ new.target = Len(tensors) + 1]_vars

\* a trace dot was just added for an index at order 1
C4_Witness ==
  /\ last.op = "addSummation"
  /\ last.err = "none"
  /\ contractions # <<>>
  /\ LET c == contractions[Len(contractions)]
     IN /\ c.target = Len(tensors)
        /\ IsTensorRef(tensors, c.source)
        /\ tensors[c.target].shape = "dot"
        /\ Len(tensors[c.target].indices) = 1
        /\ tensors[c.target].indices[1].name = last.name
        /\ FirstNamed(tensors[c.source], last.name).order = 1

\* tensor T with its first index named n renamed to newName
C5_Renamed(T, n, newName) ==
  [T EXCEPT !.indices =
     [q \in 1..Len(T.indices) |->
        IF T.indices[q] = FirstNamed(T, n) /\ (\A r \in 1..(q - 1) : T.indices[r].name # n)
          THEN [T.indices[q] EXCEPT !.name = newName]
          ELSE T.indices[q]]]

\* C5: addSummation(name, position) when N >= 3 tensors carry name appends one
\* dot tensor at position and N contractions; the k-th carrier (k from 0, in
\* diagram order) has its first index named name renamed to name+k and is
\* otherwise unchanged, the dot's k-th index is named name+k and sits on the
\* side opposite to that index, and the k-th new contraction goes from that
\* carrier to the dot under the name name+k.
C5_StarSummation ==
  [][(/\ last'.op = "addSummation"
      /\ Cardinality(Carriers(tensors, last'.name)) >= 3
      /\ last'.position.kind = "xy") =>
       LET n == last'.name
           S == Carriers(tensors, n)
           N == Cardinality(S)
           hub == Len(tensors) + 1
           dot == tensors'[hub]
       IN /\ last'.err = "none"
          /\ Len(tensors') = Len(tensors) + 1
          /\ dot.shape = "dot"
          /\ dot.x = last'.position.x
          /\ dot.y = last'.position.y
          /\ Len(dot.indices) = N
          /\ Len(contractions') = Len(contractions) + N
          /\ SubSeq(contractions', 1, Len(contractions)) = contractions
          /\ \A p \in (1..Len(tensors)) \ S : tensors'[p] = tensors[p]
          /\ \A k \in 0..(N - 1) :
               LET ref == Kth(S, k)
                   new == contractions'[Len(contractions) + k + 1]
               IN /\ tensors'[ref] = C5_Renamed(tensors[ref], n, Suffixed(n, k))
                  /\ dot.indices[k + 1].name = Suffixed(n, k)
                  /\ Opposed(dot.indices[k + 1].pos, FirstNamed(tensors[ref], n).pos)
                  /\ new.source = ref
                  /\ new.target = hub
                  /\ new.name = Suffixed(n, k)]_vars

\* a star was just built whose hub has indices on more than one side
C5_Witness ==
  /\ last.op = "addSummation"
  /\ last.err = "none"
  /\ last.position.kind = "xy"
  /\ tensors # <<>>
  /\ LET dot == tensors[Len(tensors)]
     IN /\ dot.shape = "dot"
        /\ Len(dot.indices) >= 3
        /\ dot.indices[1].name = Suffixed(last.name, 0)
        /\ \E q \in 2..Len(dot.indices) : dot.indices[q].pos # dot.indices[1].pos
  /\ Len(contractions) >= 3
  /\ contractions[Len(contractions)].target = Len(tensors)

\* the orders, and the number, of the indices of tensor t on one side
C6_OrdersOn(t, side) ==
  {t.indices[q].order : q \in {r \in 1..Len(t.indices) : t.indices[r].pos = side}}

C6_CountOn(t, side) ==
  Cardinality({r \in 1..Len(t.indices) : t.indices[r].pos = side})

C6_Block(names, side, q) == [name |-> names[q], pos |-> side, order |-> q - 1]

\* C6: on every tensor (dots included) and every side, the orders of the
\* indices on that side are pairwise distinct and are exactly 0..count-1; and
\* the tensor just added by addTensor lists the left names, then the right,
\* up and down names, each in input order.
C6_DenseOrders ==
  /\ \A p \in 1..Len(tensors) : \A side \in Pos :
       /\ C6_OrdersOn(tensors[p], side) = 0..(C6_CountOn(tensors[p], side) - 1)
       /\ Cardinality(C6_OrdersOn(tensors[p], side)) = C6_CountOn(tensors[p], side)
  /\ (last.op = "addTensor" /\ last.err = "none") =>
       LET l == last.layout
           ixs == tensors[Len(tensors)].indices
           nl == Len(l.left)
           nr == nl + Len(l.right)
           nu == nr + Len(l.up)
           nd == nu + Len(l.down)
           Short(q) == [name |-> ixs[q].name, pos |-> ixs[q].pos, order |-> ixs[q].order]
       IN /\ Len(ixs) = nd
          /\ \A q \in 1..nl : Short(q) = C6_Block(l.left, "left", q)
          /\ \A q \in (nl + 1)..nr : Short(q) = C6_Block(l.right, "right", q - nl)
          /\ \A q \in (nr + 1)..nu : Short(q) = C6_Block(l.up, "up", q - nr)
          /\ \A q \in (nu + 1)..nd : Short(q) = C6_Block(l.down, "down", q - nu)

\* after a setSize call, the dot of a star carries two indices on one side,
\* beside a tensor with indices on all four sides
C6_Witness ==
  /\ width # DefaultWidth
  /\ \E p \in 1..Len(tensors) :
       /\ tensors[p].shape = "dot"
       /\ \E side \in Pos : C6_CountOn(tensors[p], side) >= 2
  /\ \E p \in 1..Len(tensors) :
       /\ tensors[p].shape # "dot"
       /\ Cardinality({side \in Pos : C6_CountOn(tensors[p], side) >= 1}) = 4

\* the names of the recorded contractions; the index names on the tensors
ContractionNames == {contractions[c].name : c \in 1..Len(contractions)}

AllIndexNames ==
  UNION {{tensors[p].indices[q].name : q \in 1..Len(tensors[p].indices)} :
           p \in 1..Len(tensors)}

\* the names of the indices looseIndices() returns
C7_LooseNames ==
  LET loose == looseIndices(tensors, contractions)
  IN UNION {{loose[p][q].name : q \in 1..Len(loose[p])} : p \in 1..Len(loose)}

\* looseIndices() returns no index named like a contraction and, per tensor,
\* the other indices in their original order
C7_LooseAreTheUncontracted ==
  LET loose == looseIndices(tensors, contractions)
  IN /\ Len(loose) = Len(tensors)
     /\ \A p \in 1..Len(tensors) :
          LET ixs == tensors[p].indices
              keep == {q \in 1..Len(ixs) : ixs[q].name \notin ContractionNames}
          IN /\ Len(loose[p]) = Cardinality(keep)
             /\ \A j \in 1..Len(loose[p]) :
                  /\ loose[p][j].name \notin ContractionNames
                  /\ loose[p][j] = ixs[Kth(keep, j - 1)]

\* C7 as claimed: looseIndices() returns no contracted name, keeps each
\* tensor's remaining indices in order, and the loose names together with the
\* contraction names are exactly the index names present on the tensors.
C7_Original ==
  /\ C7_LooseAreTheUncontracted
  /\ C7_LooseNames \cup ContractionNames = AllIndexNames

\* C7 as amended: looseIndices() returns no contracted name, keeps each
\* tensor's remaining indices in order, and every index name present on the
\* tensors is a loose name or a contraction name (a contraction name need not
\* be the name of any index).
C7_LooseAndContractedCover ==
  /\ C7_LooseAreTheUncontracted
  /\ C7_LooseNames \cap ContractionNames = {}
  /\ C7_LooseNames \subseteq AllIndexNames
  /\ AllIndexNames \subseteq C7_LooseNames \cup ContractionNames

\* a tensor keeps a loose index behind a contracted one, while some
\* contraction carries a name no tensor has
C7_Witness ==
  /\ ContractionNames \ AllIndexNames # {}
  /\ \E p \in 1..Len(tensors) :
       LET ixs == tensors[p].indices
       IN /\ Len(ixs) >= 2
          /\ ixs[1].name \in ContractionNames
          /\ ixs[Len(ixs)].name \notin ContractionNames

\* the places <<tensor, index>> where the name n occurs, and their order
C8_Occurrences(n) ==
  UNION {{<<p, q>> : q \in {r \in 1..Len(tensors[p].indices) : tensors[p].indices[r].name = n}} :
           p \in 1..Len(tensors)}

C8_Before(a, b) == a[1] < b[1] \/ (a[1] = b[1] /\ a[2] < b[2])

C8_First(n) ==
  CHOOSE pr \in C8_Occurrences(n) : \A o \in C8_Occurrences(n) : o = pr \/ C8_Before(pr, o)

RECURSIVE C8_Dedup(_)
C8_Dedup(s) ==
  IF s = <<>> THEN <<>>
  ELSE LET init == C8_Dedup(SubSeq(s, 1, Len(s) - 1))
           e == s[Len(s)]
       IN IF \E q \in 1..Len(init) : init[q] = e THEN init ELSE Append(init, e)

RECURSIVE C8_LooseNameSeq(_, _)
C8_LooseNameSeq(loose, p) ==
  IF p > Len(loose) THEN <<>>
  ELSE [q \in 1..Len(loose[p]) |-> loose[p][q].name] \o C8_LooseNameSeq(loose, p + 1)

\* C8: the free list of toFormulaEinsum() holds exactly the index names that
\* name no contraction, each once, in the order of their first occurrence over
\* all tensors in diagram order; it is the looseIndices() names with later
\* duplicates removed.  Two tensors sharing one index, summed by addSummation,
\* give the empty free list; one tensor with one index and no contraction
\* gives that index.
C8_FreeNames ==
  LET free == indicesFree(tensors, contractions)
  IN /\ \A i \in 1..Len(free) : \A j \in 1..Len(free) : i # j => free[i] # free[j]
     /\ {free[i] : i \in 1..Len(free)} = AllIndexNames \ ContractionNames
     /\ \A i \in 1..Len(free) : \A j \in (i + 1)..Len(free) :
          C8_Before(C8_First(free[i]), C8_First(free[j]))
     /\ free = C8_Dedup(C8_LooseNameSeq(looseIndices(tensors, contractions), 1))
     /\ \A n \in Names :
          (/\ Len(tensors) = 2
           /\ NamesOf(tensors[1].indices) = <<n>>
           /\ NamesOf(tensors[2].indices) = <<n>>
           /\ tensors[2].name = "A"
           /\ last.op = "addSummation" /\ last.name = n /\ last.err = "none"
           /\ Len(contractions) = 1) =>
            /\ free = <<>>
            /\ toFormulaEinsum(tensors, contractions)
                 = "einsum('" \o n \o "," \o n \o "->', A, A)"
     /\ \A n \in Names :
          (/\ Len(tensors) = 1
           /\ NamesOf(tensors[1].indices) = <<n>>
           /\ contractions = <<>>) =>
            /\ free = <<n>>
            /\ toFormulaEinsum(tensors, contractions)
                 = "einsum('" \o n \o "->" \o n \o "', A)"

\* a free name occurs on two tensors, the first time behind a contracted
\* name, and is listed once
C8_Witness ==
  LET free == indicesFree(tensors, contractions)
  IN /\ Len(free) = 1
     /\ Cardinality(Carriers(tensors, free[1])) >= 2
     /\ tensors[1].indices[1].name \in ContractionNames
     /\ Len(tensors) >= 3

\* both ends of contraction c are tensors of ts carrying an index named c.name
C9_Sound(ts, c) ==
  /\ c.source \in Carriers(ts, c.name)
  /\ c.target \in Carriers(ts, c.name)

\* C9 as claimed: in diagrams built with addTensor and addSummation alone,
\* every recorded contraction's source and target are tensors of the diagram
\* and each carries, now, an index named like the contraction.
C9_Original ==
  \A c \in 1..Len(contractions) : C9_Sound(tensors, contractions[c])

\* C9 as amended: in diagrams built with addTensor and addSummation alone,
\* every contraction recorded by a call has, when that call returns, a source
\* and a target that are tensors of the diagram and carry an index named like
\* the contraction.
C9_SoundWhenRecorded ==
  [][\A c \in (Len(contractions) + 1)..Len(contractions') :
       C9_Sound(tensors', contractions'[c])]_vars

\* a star was just recorded, and its renaming left an earlier contraction
\* without its index
C9_Witness ==
  /\ last.op = "addSummation"
  /\ last.err = "none"
  /\ Len(contractions) = 4
  /\ ~C9_Sound(tensors, contractions[1])
  /\ \A c \in 2..4 :
       /\ contractions[c].target = Len(tensors)
       /\ C9_Sound(tensors, contractions[c])

\* the number of indices of tensor t named n
C10_CountNamed(t, n) == Cardinality({q \in 1..Len(t.indices) : t.indices[q].name = n})

\* C10: after addSummation(name, position) in the 3-or-more branch on a
\* diagram where no tensor carries two indices named name, the N recorded
\* contractions have pairwise distinct names, each name+k is carried by
\* exactly two tensors of the diagram -- the k-th carrier and the dot -- and
\* no tensor carries name any more.
\* (Violated by the code when a tensor already carries an index named name+k.)
C10_DisambiguatedNamesUnique ==
  [][(/\ last'.op = "addSummation"
      /\ last'.position.kind = "xy"
      /\ Cardinality(Carriers(tensors, last'.name)) >= 3
      /\ \A p \in 1..Len(tensors) : C10_CountNamed(tensors[p], last'.name) <= 1) =>
       LET n == last'.name
           S == Carriers(tensors, n)
           N == Cardinality(S)
           base == Len(contractions)
       IN /\ Len(contractions') = base + N
          /\ \A i \in 1..N : \A j \in 1..N :
               i # j => contractions'[base + i].name # contractions'[base + j].name
          /\ \A k \in 0..(N - 1) :
               Carriers(tensors', Suffixed(n, k)) = {Kth(S, k), Len(tensors) + 1}
          /\ Carriers(tensors', n) = {}]_vars

====
